---- MODULE Spec2Model ----
(***************************************************************************)
(* Model of powerplantmatching/cleaning.py: the vertical cleaning of one   *)
(* dataset (clean_single), the aggregation of power plant units            *)
(* (aggregate_units), the duplicate-group resolver (cliques) and the       *)
(* per-dataset cache file of aggregation groups.                           *)
(*                                                                         *)
(* A pandas DataFrame is a record [hasGrouped, rows]: rows is the sequence *)
(* of its rows in positional order, every row carrying its index label     *)
(* (idx) and the columns the operations below read or write; hasGrouped    *)
(* says whether the frame has a column 'grouped'.  Columns that are only   *)
(* copied through (Country, Fueltype, Set, File, lat, lon, ...) are left   *)
(* out.  A Name is the sequence of its whitespace-separated words.         *)
(***************************************************************************)
EXTENDS Integers, Sequences, FiniteSets, TLC

\* ---------------------------------------------------------------- bounds
\* largest record set handed to cliques() on its own
MaxNodes == 3
\* largest number of directed links in dataduplicates
MaxLinks == 6

\* largest record set handed to clean_single() or aggregate_units()
MaxRecords == 2

\* largest number of phrases in a Technology text handed to clean_technology()
MaxPhrases == 2

\* np.nan: the value of an unassigned 'grouped' cell and of a null Capacity
NaN == -1
\* a word that occurs at least this often in a batch of names is removed
CommonWordThreshold == 20

VARIABLES
    df,           \* the frame the running function holds in its variable df
    links,        \* cliques(): the argument dataduplicates, a set of <<one, two>>
    enum,         \* cliques(): the sequence nx.find_cliques yields
    pc,           \* position of the running call
    call,         \* the entry point called and the arguments passed to it
    dataset_name, \* the local variable dataset_name
    callerDf,     \* the frame object the caller passed, as the caller sees it
    passedDf,     \* history: the caller's frame as it was when the call began
    auInput,      \* history: the frame aggregate_units received
    grouped,      \* aggregate_units: the Series grouped, projectID -> group
    files,        \* the cache files: path -> lines, or Absent
    log,          \* history: the library and I/O calls made by the running call
    ret,          \* what the call returned or raised
    prev,         \* history: the run before the one running now
    tech,         \* clean_technology: the Series tech, index label -> text
    generalize_hydros  \* clean_technology: the argument generalize_hydros

vars == <<df, links, enum, pc, call, dataset_name, callerDf, passedDf, auInput,
          grouped, files, log, ret, prev, tech, generalize_hydros>>

\* the locals of clean_technology() called on its own
techVars == <<tech, generalize_hydros>>

\* what cliques() called on its own leaves alone
pipelineVars == <<call, dataset_name, callerDf, passedDf, auInput, grouped,
                  files, log, ret, prev>>

\* what clean_technology() called on its own leaves alone
pipelineInputs == <<call, dataset_name, callerDf, passedDf, auInput, grouped,
                    files, log, prev>>

\* dataset_name=None
None == "None"
\* a file that does not exist
Absent == [exists |-> FALSE, lines |-> <<>>]
\* an empty frame object
NoFrame == [hasGrouped |-> FALSE, rows |-> <<>>]
\* no Series
NoSeries == <<>>
\* no earlier run
NoRun == [path |-> <<>>, records |-> <<>>, grouped |-> NoSeries]
NoCall == [fn |-> "", use_saved_aggregation |-> FALSE, dataset_name |-> None,
           aggregate_powerplant_units |-> FALSE,
           return_aggregation_groups |-> FALSE]

\* ------------------------------------------------------------ data frames
\* projectID of the k-th record of an input record set
InputProjectID(k) == 100 + k

\* df.index
Index(frame) == {frame.rows[k].idx : k \in DOMAIN frame.rows}

\* the row of a frame with index label l (labels are unique)
RowAt(frame, l) == frame.rows[CHOOSE k \in DOMAIN frame.rows : frame.rows[k].idx = l]

\* a record set of n records with a default RangeIndex and no 'grouped' column
PlainFrame(n) ==
    [hasGrouped |-> FALSE,
     rows |-> [k \in 1..n |-> [idx |-> k - 1, projectID |-> InputProjectID(k),
                               Name |-> <<"alpha">>, Capacity |-> NaN,
                               grouped |-> NaN]]]

\* the records of a frame that carry group number g
GroupOf(frame, g) ==
    {frame.rows[k].idx : k \in {j \in DOMAIN frame.rows : frame.rows[j].grouped = g}}

\* the group numbers that occur in a frame
GroupNumbers(frame) == {frame.rows[k].grouped : k \in DOMAIN frame.rows} \ {NaN}

\* ---------------------------------------------------------------- cliques
\* G.to_undirected(reciprocal=True): the links present in both directions
ToUndirectedAny(dups) == dups \cup {<<e[2], e[1]>> : e \in dups}
ToUndirectedReciprocal(dups) == {e \in dups : <<e[2], e[1]>> \in dups}

\* C is a clique of the undirected graph H (self loops do not count)
IsClique(H, C) == \A u \in C : \A v \in C : u # v => <<u, v>> \in H

\* the maximal cliques of H over the node set: what nx.find_cliques yields
NonSingletonMaximalCliques(nodes, H) ==
    {C \in SUBSET nodes :
        /\ Cardinality(C) > 1
        /\ IsClique(H, C)
        /\ \A v \in nodes \ C : ~IsClique(H, C \cup {v})}
MaximalCliques(nodes, H) ==
    {C \in SUBSET nodes :
        /\ C # {}
        /\ IsClique(H, C)
        /\ \A v \in nodes \ C : ~IsClique(H, C \cup {v})}

\* the orders in which find_cliques may yield the maximal cliques: each once
Enumerations(S) ==
    {s \in [1..Cardinality(S) -> S] : \A i, j \in DOMAIN s : i # j => s[i] # s[j]}

\* for i, inds in enumerate(...): grouped.loc[inds] = i
RECURSIVE KeepFirstLoop(_, _, _)
KeepFirstLoop(series, enumeration, i) ==
    IF i > Len(enumeration) THEN series
    ELSE KeepFirstLoop([l \in DOMAIN series |->
                          IF l \in enumeration[i] /\ series[l] = NaN
                          THEN i - 1 ELSE series[l]],
                       enumeration, i + 1)
RECURSIVE GroupedLoop(_, _, _)
GroupedLoop(series, enumeration, i) ==
    IF i > Len(enumeration) THEN series
    ELSE GroupedLoop([l \in DOMAIN series |->
                        IF l \in enumeration[i] THEN i - 1 ELSE series[l]],
                     enumeration, i + 1)

\* df.assign(grouped=grouped)
AssignGrouped(frame, series) ==
    [hasGrouped |-> TRUE,
     rows |-> [k \in DOMAIN frame.rows |->
                  [frame.rows[k] EXCEPT !.grouped = series[frame.rows[k].idx]]]]

\* cliques(df, dataduplicates), find_cliques yielding enumeration
cliques(frame, dataduplicates, enumeration) ==
    AssignGrouped(frame,
                  GroupedLoop([l \in Index(frame) |-> NaN], enumeration, 1))

\* the enumerations find_cliques can yield for cliques(frame, dataduplicates)
CliqueEnumerations(frame, dataduplicates) ==
    Enumerations(MaximalCliques(Index(frame),
                                ToUndirectedReciprocal(dataduplicates)))

\* the link sets a matcher can return for a frame: pairs of its index labels
LinkSets(frame, maxLinks) ==
    {d \in SUBSET (Index(frame) \X Index(frame)) : Cardinality(d) <= maxLinks}

\* ----------------------------------------------------- sequence helpers
\* the sequences that hold every element of the sequence s exactly once
Orderings(s) ==
    {[k \in DOMAIN s |-> s[f[k]]] :
        f \in {g \in [DOMAIN s -> DOMAIN s] :
                  \A i, j \in DOMAIN s : i # j => g[i] # g[j]}}

\* how often the value v occurs in the sequence s
Count(s, v) == Cardinality({k \in DOMAIN s : s[k] = v})

\* the concatenation of the sequences of a sequence
RECURSIVE Flatten(_)
Flatten(ss) == IF ss = <<>> THEN <<>> ELSE Head(ss) \o Flatten(Tail(ss))

\* the call e was made by the running call; where in the log it is
Logged(e) == \E i \in DOMAIN log : log[i] = e
Position(e) == CHOOSE i \in DOMAIN log : log[i] = e

\* ------------------------------------------------- clean_powerplantname
\* some of the words the pattern list of clean_powerplantname names; the
\* words of a Name are kept in lower case, as the patterns ignore case
FillerWords == {"power", "plant", "station", "storage", "gas"}

\* the words names are made of, in lexicographic order
Alphabet == <<"alpha", "beta", "gas", "plant", "power", "station", "storage">>
WordRank(w) == CHOOSE i \in DOMAIN Alphabet : Alphabet[i] = w

\* name1 <= name2 as strings
RECURSIVE NameLeq(_, _)
NameLeq(name1, name2) ==
    IF name1 = <<>> THEN TRUE
    ELSE IF name2 = <<>> THEN FALSE
    ELSE IF Head(name1) # Head(name2)
         THEN WordRank(Head(name1)) < WordRank(Head(name2))
         ELSE NameLeq(Tail(name1), Tail(name2))

\* common_words[common_words >= 20]: the words frequent in this batch
CommonWords(frame) ==
    LET words == Flatten([k \in DOMAIN frame.rows |-> frame.rows[k].Name])
    IN  {w \in {words[i] : i \in DOMAIN words} :
            Count(words, w) >= CommonWordThreshold}

\* the name with the common words and the filler words taken out
CleanedName(name, cw) ==
    SelectSeq(name, LAMBDA w : w \notin cw /\ w \notin FillerWords)

\* .reset_index(drop=True)
ResetIndex(rows) == [k \in DOMAIN rows |-> [rows[k] EXCEPT !.idx = k - 1]]

\* .sort_values('Name'): the rows in ascending order of Name; rows with equal
\* names keep their order, as the sort leaves arrays this short
SortValuesByName(rows) ==
    CHOOSE s \in Orderings(rows) :
        \A i, j \in DOMAIN s : i < j =>
            /\ NameLeq(s[i].Name, s[j].Name)
            /\ s[i].Name = s[j].Name =>
                  (CHOOSE k \in DOMAIN rows : rows[k] = s[i])
                      < (CHOOSE k \in DOMAIN rows : rows[k] = s[j])

\* clean_powerplantname(df)
clean_powerplantname(frame) ==
    LET cw == CommonWords(frame)
        assigned == [k \in DOMAIN frame.rows |->
                        [frame.rows[k] EXCEPT
                            !.Name = CleanedName(frame.rows[k].Name, cw)]]
        nonempty == SelectSeq(assigned, LAMBDA r : r.Name # <<>>)
    IN  [hasGrouped |-> frame.hasGrouped,
         rows |-> ResetIndex(SortValuesByName(nonempty))]

\* --------------------------------------------------------- the cache file
\* _data_out('aggregation_groups_{}.csv'.format(dataset_name))
CachePath(name) == <<"aggregation_groups_", name, ".csv">>

\* a float as to_csv writes it: whole part and fraction, nothing for NaN
FloatText(x) == IF x = NaN THEN <<>> ELSE <<x, 0>>
\* the float read_csv reads from such a text
ParseFloat(text) == IF text = <<>> THEN NaN ELSE text[1]

\* df.grouped.to_csv(path_name): one line <<index label, value>> per row and
\* no header line
to_csv(frame) ==
    [k \in DOMAIN frame.rows |->
        <<frame.rows[k].idx, FloatText(frame.rows[k].grouped)>>]

\* pd.read_csv(path_name, header=None, index_col=0): index label -> value
ReadCsvFirstLineAsHeader(lines) ==
    [l \in {lines[k][1] : k \in DOMAIN lines \ {1}} |->
        ParseFloat((CHOOSE ln \in {lines[k] : k \in DOMAIN lines \ {1}} :
                        ln[1] = l)[2])]
read_csv(lines) ==
    [l \in {lines[k][1] : k \in DOMAIN lines} |->
        ParseFloat((CHOOSE ln \in {lines[k] : k \in DOMAIN lines} : ln[1] = l)[2])]

\* .reindex(index=df.index): NaN for the labels the file does not have
Reindex(groups, index) ==
    [l \in index |-> IF l \in DOMAIN groups THEN groups[l] ELSE NaN]

\* df.drop('grouped', axis=1)
DropGrouped(frame) ==
    [hasGrouped |-> FALSE,
     rows |-> [k \in DOMAIN frame.rows |-> [frame.rows[k] EXCEPT !.grouped = NaN]]]

\* ------------------------------------------------------- aggregate_units
\* the ascending sequence of the elements of a set of numbers
RECURSIVE Ascending(_)
Ascending(S) ==
    IF S = {} THEN <<>>
    ELSE LET m == CHOOSE x \in S : \A y \in S : x <= y
         IN  <<m>> \o Ascending(S \ {m})

\* df.groupby('grouped'): the rows of the group with key g, in frame order
\* (rows whose key is NaN belong to no group)
Members(frame, g) == SelectSeq(frame.rows, LAMBDA r : r.grouped = g)

\* x['Name'].value_counts().index[0]: a most frequent Name of the group
Modes(x) ==
    LET names == [k \in DOMAIN x |-> x[k].Name]
    IN  {n \in {names[k] : k \in DOMAIN names} :
            \A m \in {names[k] : k \in DOMAIN names} :
                Count(names, n) >= Count(names, m)}

\* x['Capacity'].fillna(0.).sum()
RECURSIVE MaxCapacity(_)
MaxCapacity(x) ==
    IF x = <<>> THEN 0
    ELSE LET c == IF Head(x).Capacity = NaN THEN 0 ELSE Head(x).Capacity
             m == MaxCapacity(Tail(x))
         IN  IF c > m THEN c ELSE m
RECURSIVE FillnaSum(_)
FillnaSum(x) ==
    IF x = <<>> THEN 0
    ELSE (IF Head(x).Capacity = NaN THEN 0 ELSE Head(x).Capacity)
         + FillnaSum(Tail(x))

\* prop_for_groups(x), with name the most frequent Name value_counts gives
PropForGroupsFirstID(x, name) ==
    [idx |-> NaN,
     projectID |-> <<x[1].projectID>>,
     Name |-> name,
     Capacity |-> FillnaSum(x),
     grouped |-> NaN]
prop_for_groups(x, name) ==
    [idx |-> NaN,
     projectID |-> [k \in DOMAIN x |-> x[k].projectID],
     Name |-> name,
     Capacity |-> FillnaSum(x),
     grouped |-> NaN]

\* df.groupby('grouped').apply(prop_for_groups): one row per group key, in
\* ascending key order
GroupbyApply(frame) ==
    LET keys == Ascending(GroupNumbers(frame))
    IN  {[i \in DOMAIN keys |-> prop_for_groups(Members(frame, keys[i]), pick[i])] :
            pick \in {f \in [DOMAIN keys -> {frame.rows[k].Name : k \in DOMAIN frame.rows}] :
                         \A i \in DOMAIN keys : f[i] \in Modes(Members(frame, keys[i]))}}

\* df.set_index('projectID')['grouped']
SetIndexProjectID(frame) ==
    [p \in {frame.rows[k].projectID : k \in DOMAIN frame.rows} |->
        (CHOOSE r \in {frame.rows[k] : k \in DOMAIN frame.rows} : r.projectID = p).grouped]

\* lines 251-255: the frames the aggregation of a grouped frame can give
Aggregated(frame) ==
    {clean_powerplantname([hasGrouped |-> FALSE, rows |-> ResetIndex(r)]) :
        r \in GroupbyApply(frame)}

\* ------------------------------------------------------------ the inputs
\* the records a record set is made of
RowKinds ==
    {[Name |-> <<"alpha">>, Capacity |-> NaN],
     [Name |-> <<"beta", "plant">>, Capacity |-> 1],
     [Name |-> <<"power", "plant">>, Capacity |-> 2]}

\* the record sets a caller passes: up to MaxRecords records with a default
\* RangeIndex, with or without a column 'grouped' of its own
InputFrames(kinds) ==
    UNION {{[hasGrouped |-> hg,
             rows |-> [k \in 1..n |->
                         [idx |-> k - 1, projectID |-> InputProjectID(k),
                          Name |-> ks[k].Name, Capacity |-> ks[k].Capacity,
                          grouped |-> IF hg THEN 0 ELSE NaN]]] :
              ks \in [1..n -> kinds], hg \in BOOLEAN} : n \in 1..MaxRecords}

DatasetNames == {None, "ds"}

\* the calls of the two entry points
Calls ==
    {[fn |-> "aggregate_units", use_saved_aggregation |-> u, dataset_name |-> d,
      aggregate_powerplant_units |-> TRUE, return_aggregation_groups |-> r] :
        u \in BOOLEAN, d \in DatasetNames, r \in BOOLEAN}
    \cup
    {[fn |-> "clean_single", use_saved_aggregation |-> u, dataset_name |-> d,
      aggregate_powerplant_units |-> a, return_aggregation_groups |-> r] :
        u \in BOOLEAN, d \in DatasetNames, a \in BOOLEAN, r \in BOOLEAN}

\* duke(df): the matcher returns any set of directed pairs of distinct records
DukeOutputs(frame) ==
    {d \in SUBSET {e \in Index(frame) \X Index(frame) : e[1] # e[2]} :
        Cardinality(d) <= MaxLinks}

Paths == {CachePath(n) : n \in DatasetNames \cup {"Unnamed dataset"}}
NoFiles == [p \in Paths |-> Absent]
FileOf(lines) == [exists |-> TRUE, lines |-> lines]

\* what an earlier run saved for a dataset name when the dataset had n records
\* of which the matcher linked none, or every two (find_cliques yielding the
\* cliques in index order)
EarlierCaches ==
    UNION {{to_csv(cliques(PlainFrame(n), d, e)) :
               e \in {f \in CliqueEnumerations(PlainFrame(n), d) :
                         \A i, j \in DOMAIN f :
                             i < j => \E a \in f[i] : \A b \in f[j] : a < b}} :
              <<n, d>> \in {<<m, {}>> : m \in 1..MaxRecords}
                       \cup {<<m, (0..(m - 1)) \X (0..(m - 1))>> : m \in 1..MaxRecords}}

\* ------------------------------------------------ positions in the code
\* line 242: with a column 'grouped' the matcher is skipped
ResolveOrAggregate(frame) == IF frame.hasGrouped THEN "aggregate" ELSE "resolve"
\* line 231
LoadOrResolve(c, frame) ==
    IF c.use_saved_aggregation THEN "load" ELSE ResolveOrAggregate(frame)
EntryPc(c, frame) ==
    IF c.fn = "clean_single" THEN "clean_single" ELSE LoadOrResolve(c, frame)

\* a call c of an entry point begins on the caller's frame
Begin(c, frame) ==
    /\ call = c
    /\ callerDf = frame
    /\ passedDf = frame
    /\ df = frame
    /\ dataset_name = c.dataset_name
    /\ auInput = IF c.fn = "aggregate_units" THEN frame ELSE NoFrame
    /\ grouped = NoSeries
    /\ log = <<>>
    /\ ret = "none"
    /\ pc = EntryPc(c, frame)

Init ==
    /\ \E c \in Calls : \E frame \in InputFrames(RowKinds) : Begin(c, frame)
    /\ files \in {NoFiles}
                 \cup {[NoFiles EXCEPT ![CachePath("ds")] = FileOf(lines)] :
                          lines \in EarlierCaches}
    /\ prev = NoRun
    /\ tech = NoSeries
    /\ generalize_hydros = FALSE
    /\ links = {}
    /\ enum = <<>>

\* ---------------------------------------------------------- clean_single
\* lines 293-296
CS_Check ==
    /\ pc = "clean_single"
    /\ IF /\ call.aggregate_powerplant_units
          /\ call.use_saved_aggregation
          /\ dataset_name = None
       THEN /\ pc' = "raised"
            /\ ret' = "ValueError"
            /\ UNCHANGED dataset_name
       ELSE /\ dataset_name' = IF dataset_name = None THEN "Unnamed dataset"
                                                       ELSE dataset_name
            /\ pc' = "clean_name"
            /\ UNCHANGED ret
    /\ UNCHANGED <<techVars, df, links, enum, call, callerDf, passedDf, auInput, grouped,
                   files, log, prev>>

\* lines 298-311: the names are cleaned; aggregate_units is entered if asked
CS_CleanName ==
    /\ pc = "clean_name"
    /\ df' = clean_powerplantname(df)
    /\ IF call.aggregate_powerplant_units
       THEN auInput' = df' /\ pc' = LoadOrResolve(call, df')
       ELSE UNCHANGED auInput /\ pc' = "finish"
    /\ log' = Append(log, "clean_powerplantname")
    /\ UNCHANGED <<techVars, links, enum, call, dataset_name, callerDf, passedDf, grouped,
                   files, ret, prev>>

\* df['projectID'].dropna().map(lambda x: [x])
ProjectIDLists(frame) ==
    [frame EXCEPT !.rows = [k \in DOMAIN frame.rows |->
        [frame.rows[k] EXCEPT !.projectID = <<frame.rows[k].projectID>>]]]

\* lines 313-319
CS_Finish ==
    /\ pc = "finish"
    /\ df' = IF call.aggregate_powerplant_units THEN df ELSE ProjectIDLists(df)
    /\ log' = Append(log, "clean_technology")
    /\ IF call.return_aggregation_groups
       THEN IF call.aggregate_powerplant_units
            THEN pc' = "returned" /\ ret' = "df, grouped"
            ELSE pc' = "raised" /\ ret' = "UnboundLocalError"
       ELSE pc' = "returned" /\ ret' = "df"
    /\ UNCHANGED <<techVars, links, enum, call, dataset_name, callerDf, passedDf, auInput,
                   grouped, files, prev>>

\* ------------------------------------------------------- aggregate_units
\* lines 232-235: the cache file is read and reindexed onto df.index
AU_LoadCache ==
    /\ pc = "load"
    /\ files[CachePath(dataset_name)].exists
    /\ df' = AssignGrouped(df, Reindex(read_csv(files[CachePath(dataset_name)].lines),
                                       Index(df)))
    /\ pc' = ResolveOrAggregate(df')
    /\ log' = Append(log, "read_csv")
    /\ UNCHANGED <<techVars, links, enum, call, dataset_name, callerDf, passedDf, auInput,
                   grouped, files, ret, prev>>

\* lines 236-240: reading failed (no file, or a file that cannot be read); a
\* column 'grouped' is dropped from the frame object that was passed in
AU_LoadFailed ==
    /\ pc = "load"
    /\ df' = IF df.hasGrouped THEN DropGrouped(df) ELSE df
    /\ callerDf' = IF call.fn = "aggregate_units" THEN df' ELSE callerDf
    /\ pc' = ResolveOrAggregate(df')
    /\ log' = log \o <<"read_csv", "logger.warning">>
    /\ UNCHANGED <<techVars, links, enum, call, dataset_name, passedDf, auInput, grouped,
                   files, ret, prev>>

\* lines 243-244
AU_Resolve ==
    /\ pc = "resolve"
    /\ \E d \in DukeOutputs(df) : \E e \in CliqueEnumerations(df, d) :
          df' = cliques(df, d, e)
    /\ pc' = "write"
    /\ log' = log \o <<"duke", "cliques">>
    /\ UNCHANGED <<techVars, links, enum, call, dataset_name, callerDf, passedDf, auInput,
                   grouped, files, ret, prev>>

\* lines 245-248: to_csv writes the file, or raises IndexError (passed over),
\* or raises an I/O error (not caught)
AU_Write ==
    /\ pc = "write"
    /\ log' = Append(log, "to_csv")
    /\ \/ /\ files' = [files EXCEPT ![CachePath(dataset_name)] = FileOf(to_csv(df))]
          /\ pc' = "aggregate"
          /\ UNCHANGED ret
       \/ /\ pc' = "aggregate"
          /\ UNCHANGED <<files, ret>>
       \/ /\ pc' = "raised"
          /\ ret' = "IOError"
          /\ UNCHANGED files
    /\ UNCHANGED <<techVars, df, links, enum, call, dataset_name, callerDf, passedDf, auInput,
                   grouped, prev>>

\* lines 250-259.  With no group at all (an empty frame) groupby.apply gives,
\* depending on the pandas version, an empty frame with or without the column
\* Name; without it clean_powerplantname raises AttributeError.
AU_Aggregate ==
    /\ pc = "aggregate"
    /\ grouped' = SetIndexProjectID(df)
    /\ \/ /\ \E a \in Aggregated(df) : df' = a
          /\ log' = log \o <<"groupby", "clean_powerplantname">>
          /\ IF call.fn = "aggregate_units"
             THEN /\ pc' = "returned"
                  /\ ret' = IF call.return_aggregation_groups THEN "df, grouped"
                                                               ELSE "df"
             ELSE /\ pc' = "finish"
                  /\ UNCHANGED ret
       \/ /\ GroupNumbers(df) = {}
          /\ log' = log \o <<"groupby", "clean_powerplantname">>
          /\ pc' = "raised"
          /\ ret' = "AttributeError"
          /\ UNCHANGED df
    /\ UNCHANGED <<techVars, links, enum, call, dataset_name, callerDf, passedDf, auInput,
                   files, prev>>

Next ==
    \/ CS_Check
    \/ CS_CleanName
    \/ CS_Finish
    \/ AU_LoadCache
    \/ AU_LoadFailed
    \/ AU_Resolve
    \/ AU_Write
    \/ AU_Aggregate

Spec == Init /\ [][Next]_vars

\* ------------------------------------------ a run followed by a second run
\* the index label -> projectID of the records of a frame
Records(frame) == [l \in Index(frame) |-> RowAt(frame, l).projectID]

InitRoundTrip ==
    /\ \E c \in Calls : \E frame \in InputFrames(RowKinds) : Begin(c, frame)
    /\ files = NoFiles
    /\ prev = NoRun
    /\ tech = NoSeries
    /\ generalize_hydros = FALSE
    /\ links = {}
    /\ enum = <<>>

\* after a first run that resolved the groups and saved them, the caller
\* calls the same entry point again, on the same frame object and dataset
\* name, with use_saved_aggregation=True
Rerun ==
    /\ pc = "returned"
    /\ prev = NoRun
    /\ Logged("to_csv") /\ files[CachePath(dataset_name)].exists
    /\ prev' = [path |-> CachePath(dataset_name),
                records |-> Records(auInput),
                grouped |-> grouped]
    /\ call' = [call EXCEPT !.use_saved_aggregation = TRUE]
    /\ passedDf' = callerDf
    /\ df' = callerDf
    /\ dataset_name' = call.dataset_name
    /\ auInput' = IF call.fn = "aggregate_units" THEN callerDf ELSE NoFrame
    /\ grouped' = NoSeries
    /\ log' = <<>>
    /\ ret' = "none"
    /\ pc' = EntryPc(call', callerDf)
    /\ UNCHANGED <<techVars, links, enum, callerDf, files>>

NextRoundTrip == Next \/ Rerun

SpecRoundTrip == InitRoundTrip /\ [][NextRoundTrip]_vars

\* ------------------------------------------- cliques() called on its own
InitCliques ==
    /\ \E n \in 1..MaxNodes : df = PlainFrame(n)
    /\ links \in LinkSets(df, MaxLinks)
    /\ enum = <<>>
    /\ pc = "cliques"
    /\ call = NoCall
    /\ dataset_name = None
    /\ callerDf = NoFrame
    /\ passedDf = NoFrame
    /\ auInput = NoFrame
    /\ grouped = NoSeries
    /\ files = NoFiles
    /\ log = <<>>
    /\ ret = "none"
    /\ prev = NoRun
    /\ tech = NoSeries
    /\ generalize_hydros = FALSE

CallCliques ==
    /\ pc = "cliques"
    /\ \E e \in CliqueEnumerations(df, links) :
          /\ enum' = e
          /\ df' = cliques(df, links, e)
    /\ pc' = "cliques_done"
    /\ UNCHANGED <<techVars, links, pipelineVars>>

NextCliques == CallCliques

SpecCliques == InitCliques /\ [][NextCliques]_vars

\* ------------------------------------------------------- clean_technology
\* A Technology text is the sequence of its characters; a null Technology
\* is NullText.
NullText == <<"nan">>

\* the characters of the texts, in code point order
CodePoints ==
    <<" ", ",", "-",
      "A", "B", "C", "D", "E", "F", "G", "H", "I", "J", "K", "L", "M",
      "N", "O", "P", "Q", "R", "S", "T", "U", "V", "W", "X", "Y", "Z",
      "a", "b", "c", "d", "e", "f", "g", "h", "i", "j", "k", "l", "m",
      "n", "o", "p", "q", "r", "s", "t", "u", "v", "w", "x", "y", "z">>
UpperLetters == {CodePoints[i] : i \in 4..29}
LowerLetters == {CodePoints[i] : i \in 30..55}

CodePoint(c) == CHOOSE i \in DOMAIN CodePoints : CodePoints[i] = c
Lower(c) == IF c \in UpperLetters THEN CodePoints[CodePoint(c) + 26] ELSE c
Upper(c) == IF c \in LowerLetters THEN CodePoints[CodePoint(c) - 26] ELSE c
IsLetter(c) == c \in UpperLetters \cup LowerLetters

\* pat occurs in text at position i; fold says whether case is ignored
OccursAt(text, pat, i, fold) ==
    /\ i + Len(pat) - 1 <= Len(text)
    /\ \A j \in 1..Len(pat) :
          IF fold THEN Lower(text[i + j - 1]) = Lower(pat[j])
                  ELSE text[i + j - 1] = pat[j]

\* Series.str.contains(pat, case=False), pat an alternation of literals
Contains(text, alternatives) ==
    \E pat \in alternatives : \E i \in 1..Len(text) : OccursAt(text, pat, i, TRUE)

\* re.sub(pat, repl, text) for a literal pat: leftmost occurrences, no overlap
RECURSIVE Sub(_, _, _)
Sub(text, pat, repl) ==
    IF text = <<>> THEN <<>>
    ELSE IF OccursAt(text, pat, 1, FALSE)
         THEN repl \o Sub(SubSeq(text, Len(pat) + 1, Len(text)), pat, repl)
         ELSE <<Head(text)>> \o Sub(Tail(text), pat, repl)

\* str.title(): a letter after a non-letter is upper case, any other lower
Title(text) ==
    [i \in 1..Len(text) |->
        IF i = 1 \/ ~IsLetter(text[i - 1]) THEN Upper(text[i])
                                           ELSE Lower(text[i])]

\* str.split(sep)
RECURSIVE Split(_, _)
Split(text, sep) ==
    IF \E i \in 1..Len(text) : OccursAt(text, sep, i, FALSE)
    THEN LET i == CHOOSE k \in 1..Len(text) :
                     /\ OccursAt(text, sep, k, FALSE)
                     /\ \A h \in 1..(k - 1) : ~OccursAt(text, sep, h, FALSE)
         IN  <<SubSeq(text, 1, i - 1)>>
                \o Split(SubSeq(text, i + Len(sep), Len(text)), sep)
    ELSE <<text>>

\* str.strip()
RECURSIVE Strip(_)
Strip(text) ==
    IF text = <<>> THEN <<>>
    ELSE IF Head(text) = " " THEN Strip(Tail(text))
    ELSE IF text[Len(text)] = " " THEN Strip(SubSeq(text, 1, Len(text) - 1))
    ELSE text

\* the order of Python strings: by code point, a prefix first
RECURSIVE TextLess(_, _)
TextLess(a, b) ==
    IF b = <<>> THEN FALSE
    ELSE IF a = <<>> THEN TRUE
    ELSE IF Head(a) = Head(b) THEN TextLess(Tail(a), Tail(b))
    ELSE CodePoint(Head(a)) < CodePoint(Head(b))

\* np.unique(x): the distinct elements of x, sorted
Unique(x) ==
    LET elems == {x[i] : i \in DOMAIN x}
    IN  CHOOSE u \in [1..Cardinality(elems) -> elems] :
            \A i, j \in DOMAIN u : i < j => TextLess(u[i], u[j])

\* sep.join(parts)
RECURSIVE Join(_, _)
Join(parts, sep) ==
    IF parts = <<>> THEN <<>>
    ELSE IF Len(parts) = 1 THEN parts[1]
    ELSE parts[1] \o sep \o Join(Tail(parts), sep)

\* line 139: replace({' and ': ', ', ' Power Plant': '', 'Battery': ''},
\* regex=True), the substitutions made in the order written
StripBoilerplate(text) ==
    LET commas == Sub(text, <<" ", "a", "n", "d", " ">>, <<",", " ">>)
        plain == Sub(commas, <<" ", "P", "o", "w", "e", "r", " ",
                               "P", "l", "a", "n", "t">>, <<>>)
    IN  Sub(plain, <<"B", "a", "t", "t", "e", "r", "y">>, <<>>)

\* tech[tech.str.contains(pat, case=False)] = value
SetWhere(series, alternatives, value) ==
    [l \in DOMAIN series |->
        IF Contains(series[l], alternatives) THEN value ELSE series[l]]

\* lines 142-145: the hydro checks, in the order of the code
HydroChecks ==
    <<[pat |-> {<<"p", "u", "m", "p">>},
       value |-> <<"P", "u", "m", "p", "e", "d", " ", "S", "t", "o", "r", "a", "g", "e">>],
      [pat |-> {<<"r", "e", "s", "e", "r", "v", "o", "i", "r">>, <<"l", "a", "k", "e">>},
       value |-> <<"R", "e", "s", "e", "r", "v", "o", "i", "r">>],
      [pat |-> {<<"r", "u", "n", "-", "o", "f", "-", "r", "i", "v", "e", "r">>,
                <<"w", "e", "i", "r">>, <<"w", "a", "t", "e", "r">>},
       value |-> <<"R", "u", "n", "-", "O", "f", "-", "R", "i", "v", "e", "r">>],
      [pat |-> {<<"d", "a", "m">>},
       value |-> <<"R", "e", "s", "e", "r", "v", "o", "i", "r">>]>>

\* every check marks the records from the texts as they were before the
\* first check, and a later check overwrites an earlier one
GeneralizeHydrosMasksFirst(series) ==
    [l \in DOMAIN series |->
        LET hits == {k \in DOMAIN HydroChecks :
                        Contains(series[l], HydroChecks[k].pat)}
        IN  IF hits = {} THEN series[l]
            ELSE HydroChecks[CHOOSE k \in hits : \A h \in hits : h <= k].value]
\* lines 142-145: every check reads the texts the checks before it left
GeneralizeHydros(series) ==
    LET Check(sr, k) == SetWhere(sr, HydroChecks[k].pat, HydroChecks[k].value)
    IN  Check(Check(Check(Check(series, 1), 2), 3), 4)

\* lines 146-149
Thermal(series) ==
    LET replaced == [l \in DOMAIN series |->
                        IF series[l] = <<"G", "a", "s", " ", "t", "u", "r", "b", "i", "n", "e">>
                        THEN <<"O", "C", "G", "T">> ELSE series[l]]
        cc == SetWhere(replaced,
                       {<<"c", "o", "m", "b", "i", "n", "e", "d", " ",
                          "c", "y", "c", "l", "e">>},
                       <<"C", "C", "G", "T">>)
        st == SetWhere(cc, {<<"s", "t", "e", "a", "m", " ", "t", "u", "r", "b", "i", "n", "e">>,
                            <<"c", "r", "i", "t", "i", "c", "a", "l", " ", "t", "h", "e", "r", "m", "a", "l">>},
                       <<"S", "t", "e", "a", "m", " ", "T", "u", "r", "b", "i", "n", "e">>)
    IN  SetWhere(st, {<<"o", "c", "g", "t">>,
                      <<"o", "p", "e", "n", " ", "c", "y", "c", "l", "e">>},
                 <<"O", "C", "G", "T">>)

\* lines 150-153: title case, split on ', ', unique, strip, join; then the
\* acronyms get their capitals back
Format(text) ==
    LET parts == Unique(Split(Title(text), <<",", " ">>))
        joined == Join([i \in DOMAIN parts |-> Strip(parts[i])], <<",", " ">>)
    IN  Sub(Sub(joined, <<"C", "c", "g", "t">>, <<"C", "C", "G", "T">>),
            <<"O", "c", "g", "t">>, <<"O", "C", "G", "T">>)

\* df['Technology'].dropna()
DropnaTechnology(frame) ==
    LET kept == {l \in Index(frame) : RowAt(frame, l).Technology # NullText}
    IN  [l \in kept |-> RowAt(frame, l).Technology]

\* df.assign(Technology=tech): aligned on the index, null where tech has no
\* entry
AssignTechnology(frame, series) ==
    [frame EXCEPT !.rows = [k \in DOMAIN frame.rows |->
        [frame.rows[k] EXCEPT !.Technology =
            IF frame.rows[k].idx \in DOMAIN series
            THEN series[frame.rows[k].idx] ELSE NullText]]]

\* the phrases the input texts are made of, and what stands between them
Phrases ==
    {<<"p", "u", "m", "p">>, <<"D", "a", "m">>, <<"l", "a", "k", "e">>,
     <<"w", "e", "i", "r">>,
     <<"G", "a", "s", " ", "t", "u", "r", "b", "i", "n", "e">>,
     <<"c", "o", "m", "b", "i", "n", "e", "d", " ", "c", "y", "c", "l", "e">>,
     <<"B", "a", "t", "t", "e", "r", "y">>,
     <<"H", "y", "d", "r", "o", " ", "P", "o", "w", "e", "r", " ", "P", "l", "a", "n", "t">>}
Separators == {<<" ">>, <<",", " ">>, <<" ", "a", "n", "d", " ">>}

\* the texts of at most n phrases
RECURSIVE TechnologyTexts(_)
TechnologyTexts(n) ==
    IF n = 1 THEN Phrases
    ELSE LET shorter == TechnologyTexts(n - 1)
         IN  shorter \cup {t \o s \o p : t \in shorter, s \in Separators,
                                          p \in Phrases}

\* a frame with the given Technology column
TechnologyFrame(column) ==
    [hasGrouped |-> FALSE,
     rows |-> [k \in DOMAIN column |-> [idx |-> k - 1, Technology |-> column[k]]]]

InitTechnology ==
    /\ \E t \in TechnologyTexts(MaxPhrases) :
          df \in {TechnologyFrame(<<NullText>>), TechnologyFrame(<<t>>),
                  TechnologyFrame(<<NullText, t>>)}
    /\ generalize_hydros \in BOOLEAN
    /\ tech = NoSeries
    /\ pc = "clean_technology"
    /\ passedDf = df
    /\ callerDf = df
    /\ call = NoCall
    /\ dataset_name = None
    /\ auInput = NoFrame
    /\ grouped = NoSeries
    /\ files = NoFiles
    /\ log = <<>>
    /\ ret = "none"
    /\ prev = NoRun
    /\ links = {}
    /\ enum = <<>>

\* lines 136-140
CT_Begin ==
    /\ pc = "clean_technology"
    /\ LET dropped == DropnaTechnology(df)
       IN  IF DOMAIN dropped = {}
           THEN /\ pc' = "returned"
                /\ ret' = "df"
                /\ UNCHANGED tech
           ELSE /\ tech' = [l \in DOMAIN dropped |-> StripBoilerplate(dropped[l])]
                /\ pc' = "hydro"
                /\ UNCHANGED ret
    /\ UNCHANGED <<df, generalize_hydros, links, enum, pipelineInputs>>

\* lines 141-145
CT_Hydro ==
    /\ pc = "hydro"
    /\ tech' = IF generalize_hydros THEN GeneralizeHydros(tech) ELSE tech
    /\ pc' = "thermal"
    /\ UNCHANGED <<df, generalize_hydros, ret, links, enum, pipelineInputs>>

\* lines 146-149
CT_Thermal ==
    /\ pc = "thermal"
    /\ tech' = Thermal(tech)
    /\ pc' = "format"
    /\ UNCHANGED <<df, generalize_hydros, ret, links, enum, pipelineInputs>>

\* lines 150-154
CT_Format ==
    /\ pc = "format"
    /\ tech' = [l \in DOMAIN tech |-> Format(tech[l])]
    /\ df' = AssignTechnology(df, tech')
    /\ pc' = "returned"
    /\ ret' = "df"
    /\ UNCHANGED <<generalize_hydros, links, enum, pipelineInputs>>

NextTechnology == CT_Begin \/ CT_Hydro \/ CT_Thermal \/ CT_Format

SpecTechnology == InitTechnology /\ [][NextTechnology]_vars

\* --------------------------------------------------- claims about cliques
\* the positions at which an enumeration yields a clique containing label l
CliquesContaining(l) == {i \in DOMAIN enum : l \in enum[i]}

Highest(S) == CHOOSE x \in S : \A y \in S : y <= x
Lowest(S) == CHOOSE x \in S : \A y \in S : x <= y

\* C1: after cliques() every record of the input carries exactly one group
\* number (none is left NaN), and the groups are pairwise disjoint sets whose
\* union is the input identifier set.
C1_GroupsPartitionRecords ==
    pc = "cliques_done" =>
        /\ df.hasGrouped
        /\ Index(df) = Index(PlainFrame(Len(df.rows)))
        /\ \A k \in DOMAIN df.rows : df.rows[k].grouped \in Nat
        /\ \A k, j \in DOMAIN df.rows : df.rows[k].idx = df.rows[j].idx => k = j
        /\ UNION {GroupOf(df, g) : g \in GroupNumbers(df)} = Index(df)
        /\ \A g, h \in GroupNumbers(df) :
              g # h => GroupOf(df, g) \cap GroupOf(df, h) = {}

\* C1 witness: a matched pair shares a group while a record that no link
\* mentions has a group of its own.
C1_Witness ==
    /\ pc = "cliques_done"
    /\ \E g \in GroupNumbers(df) : Cardinality(GroupOf(df, g)) = 2
    /\ \E l \in Index(df) :
          /\ \A e \in links : e[1] # l /\ e[2] # l
          /\ GroupOf(df, RowAt(df, l).grouped) = {l}

\* C2: after cliques() two distinct records with the same group number are
\* linked in both directions.
C2_SameGroupImpliesReciprocal ==
    pc = "cliques_done" =>
        \A a, b \in Index(df) :
            (a # b /\ RowAt(df, a).grouped = RowAt(df, b).grouped)
                => (<<a, b>> \in links /\ <<b, a>> \in links)

\* C2 witness: a one-directional link next to a group of two records.
C2_Witness ==
    /\ pc = "cliques_done"
    /\ \E a, b \in Index(df) :
          /\ a # b /\ <<a, b>> \in links /\ <<b, a>> \notin links
          /\ RowAt(df, a).grouped # RowAt(df, b).grouped
    /\ \E g \in GroupNumbers(df) : Cardinality(GroupOf(df, g)) = 2

\* C10 (as claimed): a record gets the index of the first maximal clique
\* containing it in enumeration order.
C10_FirstCliqueWins ==
    pc = "cliques_done" =>
        \A l \in Index(df) : RowAt(df, l).grouped = Lowest(CliquesContaining(l)) - 1

\* C10 (amended): a record gets the index of the last maximal clique
\* containing it in enumeration order.
C10_LastCliqueWins ==
    pc = "cliques_done" =>
        \A l \in Index(df) : RowAt(df, l).grouped = Highest(CliquesContaining(l)) - 1

\* C10 witness: some record lies in more than one maximal clique.
C10_Witness ==
    /\ pc = "cliques_done"
    /\ \E l \in Index(df) : Cardinality(CliquesContaining(l)) > 1

\* --------------------------------------- claims about the aggregation run
\* the cache file was read and its groups were taken
LoadedFromCache == Logged("read_csv") /\ ~Logged("logger.warning")

\* the matcher, the clique detection and the cache write each ran once, in
\* this order, before the aggregation
ResolvedAndSavedOnce ==
    /\ Count(log, "duke") = 1 /\ Count(log, "cliques") = 1 /\ Count(log, "to_csv") = 1
    /\ Position("duke") < Position("cliques")
    /\ Position("cliques") < Position("to_csv")
    /\ Position("to_csv") < Position("groupby")

\* the frame in df is the aggregated one
HasAggregated == Logged("groupby") /\ pc \in {"finish", "returned"}

\* C4 (as claimed): a call that asks for the saved aggregation without a
\* dataset_name does no work at all (no name cleaning, no cache read, no
\* matcher) and does not return: it raises ValueError at once.
C4_NoNameFailsBeforeAnyWork ==
    (/\ call.use_saved_aggregation
     /\ call.dataset_name = None
     /\ call.aggregate_powerplant_units)
        => (/\ log = <<>>
            /\ pc # "returned"
            /\ pc = "raised" => ret = "ValueError")

\* C5 (as claimed): the attempt to write the cache never aborts the run:
\* whatever the outcome of to_csv, the run goes on to the aggregation.
C5_WriteFailureNeverAborts ==
    (log # <<>> /\ log[Len(log)] = "to_csv") => pc = "aggregate"

\* C6 (as claimed): at the aggregation, either the cache was loaded and
\* neither the matcher nor the clique detection ran, or both ran once and
\* the cache was written once, after them and before the aggregation.
C6_CacheProtocol ==
    Logged("groupby") =>
        IF LoadedFromCache
        THEN ~Logged("duke") /\ ~Logged("cliques")
        ELSE ResolvedAndSavedOnce

\* C9 (as claimed): the frame the caller passed is as it was before the call
\* (stated for the calls that give a dataset_name).
C9_CallerFrameUnchanged ==
    call.dataset_name # None => callerDf = passedDf

\* the projectIDs of the frame aggregate_units received, in frame order
InputIDs == [k \in DOMAIN auInput.rows |-> auInput.rows[k].projectID]
\* the projectID lists of the canonical records, one after the other
OutputIDs == Flatten([k \in DOMAIN df.rows |-> df.rows[k].projectID])
\* the group numbers aggregate_units worked with
Groups == {grouped[p] : p \in DOMAIN grouped} \ {NaN}
\* the records of group g as aggregate_units received them, in frame order
MemberRows(g) == SelectSeq(auInput.rows, LAMBDA r : grouped[r.projectID] = g)
MemberIDs(g) == [k \in DOMAIN MemberRows(g) |-> MemberRows(g)[k].projectID]
\* the canonical records built from group g
CanonicalOf(g) == {k \in DOMAIN df.rows : df.rows[k].projectID = MemberIDs(g)}
\* the most frequent Names of group g that the name cleaning empties
EmptiedModes(g) == {m \in Modes(MemberRows(g)) : CleanedName(m, {}) = <<>>}

\* C7 (as claimed): there is exactly one canonical record per group, and the
\* projectID lists together hold every input identifier exactly once.
C7_OneRecordPerGroupAllIDsOnce ==
    HasAggregated =>
        /\ Len(df.rows) = Cardinality(Groups)
        /\ \A g \in Groups : Cardinality(CanonicalOf(g)) = 1
        /\ \A k \in DOMAIN InputIDs : Count(OutputIDs, InputIDs[k]) = 1

\* C7 (amended): every canonical record is built from one whole group, in
\* record order; a group has one canonical record, or none, and none only if
\* a most frequent Name of the group is emptied by the name cleaning (always
\* none if every such Name is); no identifier occurs twice, and the
\* identifiers that occur are those of the groups that kept their record.
C7_OneRecordPerSurvivingGroup ==
    HasAggregated =>
        /\ \A k \in DOMAIN df.rows : \E g \in Groups : df.rows[k].projectID = MemberIDs(g)
        /\ \A g \in Groups :
              /\ Cardinality(CanonicalOf(g)) <= 1
              /\ CanonicalOf(g) = {} => EmptiedModes(g) # {}
              /\ EmptiedModes(g) = Modes(MemberRows(g)) => CanonicalOf(g) = {}
        /\ \A k \in DOMAIN InputIDs :
              /\ Count(OutputIDs, InputIDs[k]) <= 1
              /\ Count(OutputIDs, InputIDs[k]) = 1 <=>
                    /\ grouped[InputIDs[k]] # NaN
                    /\ CanonicalOf(grouped[InputIDs[k]]) # {}

\* C7 witness: on the cache-load path, of two groups one kept its canonical
\* record and the other lost it to the name cleaning.
C7_Witness ==
    /\ HasAggregated
    /\ LoadedFromCache
    /\ \E g \in Groups : CanonicalOf(g) # {}
    /\ \E g \in Groups : CanonicalOf(g) = {}

\* C7 second witness: on the resolve path a group of two records has one
\* canonical record that lists both.
C7_WitnessResolved ==
    /\ HasAggregated
    /\ Logged("cliques")
    /\ \E g \in Groups : CanonicalOf(g) # {} /\ Len(MemberIDs(g)) = 2

\* the sum of the capacities, null counted as 0, of the input records whose
\* projectID is in ids
RECURSIVE CapacityOfIDs(_)
CapacityOfIDs(ids) ==
    IF ids = {} THEN 0
    ELSE LET p == CHOOSE q \in ids : TRUE
             r == CHOOSE x \in {auInput.rows[k] : k \in DOMAIN auInput.rows} :
                      x.projectID = p
         IN  (IF r.Capacity = NaN THEN 0 ELSE r.Capacity) + CapacityOfIDs(ids \ {p})

\* C8: the Capacity of every canonical record is the sum of the capacities of
\* the records of its group, null counted as 0.
C8_CapacityIsSumOfMembers ==
    HasAggregated =>
        \A k \in DOMAIN df.rows :
            \E g \in Groups :
                /\ df.rows[k].projectID = MemberIDs(g)
                /\ df.rows[k].Capacity =
                      CapacityOfIDs({p \in DOMAIN grouped : grouped[p] = g})

\* C8 witness: a canonical record of a group with a null and a non-null
\* capacity.
C8_Witness ==
    /\ HasAggregated
    /\ \E g \in Groups :
          /\ CanonicalOf(g) # {}
          /\ \E i, j \in DOMAIN MemberRows(g) :
                MemberRows(g)[i].Capacity = NaN /\ MemberRows(g)[j].Capacity > 0

\* C8 second witness: a group whose capacities are all null has Capacity 0.
C8_WitnessAllNull ==
    /\ HasAggregated
    /\ \E k \in DOMAIN df.rows : df.rows[k].Capacity = 0 /\ Len(df.rows[k].projectID) = 2

\* C3: when a run has saved its groups and the next run, on the same dataset
\* name and the same records, loads them, every record has in the second run
\* the group number it had in the first.
C3_RoundTripSameGroups ==
    (/\ prev # NoRun
     /\ LoadedFromCache
     /\ HasAggregated
     /\ prev.path = CachePath(dataset_name)
     /\ prev.records = Records(auInput))
        => grouped = prev.grouped

\* C3 witness: the second run loaded what the first saved for two records
\* that share a group.
C3_Witness ==
    /\ prev # NoRun
    /\ LoadedFromCache
    /\ pc = "returned"
    /\ prev.records = Records(auInput)
    /\ \E p, q \in DOMAIN grouped : p # q /\ grouped[p] = grouped[q] /\ grouped[p] # NaN

\* ------------------------------------------ claims about clean_technology
\* the hydro checks whose pattern the text of record l matches when the
\* checks begin, that is after the boilerplate of line 139 is gone
HydroHits(l) ==
    {k \in DOMAIN HydroChecks :
        Contains(StripBoilerplate(RowAt(passedDf, l).Technology),
                 HydroChecks[k].pat)}

\* the records of a finished clean_technology(df, generalize_hydros=True)
\* whose text was not null
GeneralizedRecords ==
    IF pc = "returned" /\ generalize_hydros /\ DOMAIN tech # {}
    THEN {l \in Index(passedDf) : RowAt(passedDf, l).Technology # NullText}
    ELSE {}

\* C11 (as claimed): with generalize_hydros, a record whose Technology
\* matches "dam" and also the pattern of an earlier hydro check ends with
\* the result of the last matching check, the "Reservoir" of the dam check.
C11_LastHydroCheckWins ==
    \A l \in GeneralizedRecords :
        (4 \in HydroHits(l) /\ HydroHits(l) # {4})
            => RowAt(df, l).Technology = HydroChecks[4].value

\* C11 (amended): with generalize_hydros, a record whose Technology matches
\* one or more hydro checks ends with the result of the first matching check
\* in the order pump, reservoir/lake, run-of-river/weir/water, dam: a check
\* replaces the whole text, so no later pattern matches it any more.
C11_FirstHydroCheckWins ==
    \A l \in GeneralizedRecords :
        HydroHits(l) # {}
            => RowAt(df, l).Technology =
                 HydroChecks[CHOOSE k \in HydroHits(l) :
                                \A h \in HydroHits(l) : k <= h].value

\* a record that matched "pump" and "dam" came out as "Pumped Storage"
C11_Witness ==
    \E l \in GeneralizedRecords :
        /\ {1, 4} \subseteq HydroHits(l)
        /\ RowAt(df, l).Technology = HydroChecks[1].value

\* ---------------------------------------------- claims about clean_single
\* C12 (as claimed): whatever the flags aggregate_powerplant_units,
\* use_saved_aggregation, return_aggregation_groups and dataset_name given or
\* not, a call of clean_single that ends by raising raises the configuration
\* ValueError, and one that completes with return_aggregation_groups returns
\* the pair (record set, identifier-to-group mapping).  The failures of the
\* cache write and of the aggregation of an empty record set are C5's and
\* are left aside here.
C12_ValueErrorOrCompletes ==
    call.fn = "clean_single" =>
        /\ (pc = "raised" /\ ret \notin {"IOError", "AttributeError"})
              => ret = "ValueError"
        /\ (pc = "returned" /\ call.return_aggregation_groups)
              => ret = "df, grouped"

====
